---- MODULE Spec2Model ----
(***************************************************************************)
(* DHM file autobot 4-well: the phase-map sequence codec (bin2tif,         *)
(* tif2bnr), the registration log translation, the container check and     *)
(* the worker/controls discipline of DHM_Autobot_4well.py.                 *)
(*                                                                         *)
(* Numbers.  A Python float or a numpy float32 is modelled by an integer   *)
(* of a scaled-down floating-point format: float32 keeps 8 significant     *)
(* bits instead of 24, so that the narrowing numpy does when it stores a   *)
(* Python float as float32 happens inside the bounds of the model.         *)
(* A file of four-byte values is a sequence of words [t, v]: the dtype the *)
(* word was written with and its value.                                    *)
(***************************************************************************)
EXTENDS Integers, Sequences, FiniteSets, TLC

VARIABLES
    \* ---- tif2bnr and the container check (lines 105-159, 423-458) ----
    stack,      \* the input tif stack: a sequence of pages (rows of samples)
    tstable,    \* the timestamps file: a sequence of rows, each a sequence of columns
    meta,       \* wv, n_1, n_2, pz as the caller passes them (Python floats)
    bnr,        \* the destination file: NoFile, or its sequence of 4-byte words
    bnr0,       \* the destination file as it was when tif2bnr was called
    t2b,        \* tif2bnr's position and locals
    chk,        \* the container check's position and locals
    Prog_bar,   \* the values handed to root.after(0, safe_update, v), in order
    \* ---- the registration log translation (lines 370-384) ----
    log0,       \* the log as the registration tool left it
    logfile,    \* the log file on disk: NoFile, or its lines
    tr,         \* the translation's position and locals
    \* ---- bin2tif (lines 68-102) ----
    binfolder,  \* the names of the files of the folder
    listing,    \* the order os.listdir returns them in
    tif,        \* the destination stack: NoFile, or its pages
    b2t,        \* bin2tif's position and locals
    \* ---- the window: controls, entry variables, worker threads ----
    controls,   \* the state all_off / all_on leave the buttons and entries in
    mainfolder, \* vars['mainfolder']
    threads,    \* the threads start_process has started, in order
    well_tif,   \* <mainfolder>/<Wells[0]>_phase.tif as the threads leave it
    \* ---- the files of a run and the handler working on them ----
    disk0,      \* the output files as they were when the handler started
    disk,       \* the output files now
    lins,       \* vars['lin1'] .. vars['lin4']
    present,    \* the wells whose bin folder exists
    fiji_exe,   \* whether the registration executable exists
    rp,         \* the running handler's position and locals
    \* ---- the progress bar and the UI loop ----
    pg,          \* a frame loop posting progress: its position and locals
    after_queue, \* the callbacks queued with root.after(0, ...), oldest first
    bar,         \* Prog_bar["value"]
    ui_writes,   \* the widget changes made so far, each with the thread that made it
    uiloop       \* what the UI thread is doing: "idle", or inside a handler

encVars == <<stack, tstable, meta, bnr, bnr0, t2b, chk>>
logVars == <<log0, logfile, tr>>
b2tVars == <<binfolder, listing, tif, b2t>>
winVars == <<controls, mainfolder>>
pipeVars == <<disk0, disk, lins, present, fiji_exe, rp>>
progVars == <<pg, after_queue, bar>>
loopVars == <<ui_writes, uiloop>>

vars == <<encVars, Prog_bar, logVars, b2tVars, winVars, threads, well_tif, pipeVars,
          progVars, loopVars>>

notEnc == <<logVars, b2tVars, winVars, threads, well_tif, pipeVars, progVars, loopVars>>
notLog == <<encVars, Prog_bar, b2tVars, winVars, threads, well_tif, pipeVars, progVars, loopVars>>
notB2T == <<encVars, logVars, winVars, threads, well_tif, pipeVars, progVars, loopVars>>
notUI == <<encVars, Prog_bar, logVars, b2tVars, pipeVars, progVars>>
notPipe == <<encVars, Prog_bar, logVars, b2tVars, threads, well_tif, progVars, loopVars>>
notProg == <<encVars, logVars, b2tVars, winVars, threads, well_tif, pipeVars, loopVars>>

\* ------------------------------------------------------------------------
\* Bounds
\* ------------------------------------------------------------------------
MaxPages == 3
MaxRows == 4
MaxDim == 2
MaxLines == 4
MaxFiles == 4
MaxThreads == 3
MaxOld == 1
\* the .bin files of a well's folder, as far as the threads are followed
MaxBins == 2

\* line 176: len(Wells)
NWells == 4

\* ------------------------------------------------------------------------
\* Numbers and four-byte words
\* ------------------------------------------------------------------------
Abs(v) == IF v < 0 THEN -v ELSE v

\* spacing of the scaled-down float32 grid at magnitude a
Ulp(a) == IF a <= 2^8 THEN 1 ELSE IF a <= 2^9 THEN 2 ELSE 4

\* round to nearest multiple of s, ties to even
RoundTo(a, s) ==
    LET q == a \div s
        r == a % s
    IN  IF 2 * r < s THEN q * s
        ELSE IF 2 * r > s THEN (q + 1) * s
        ELSE IF q % 2 = 0 THEN q * s ELSE (q + 1) * s

\* numpy.float32 / numpy.single of a Python float
float32(v) == IF v < 0 THEN -RoundTo(Abs(v), Ulp(Abs(v))) ELSE RoundTo(v, Ulp(v))

Word(t, v) == [t |-> t, v |-> v]

\* numpy.fromfile(fileID, dtype=dt, count=1)[0] on one word: the value when the
\* word was written with that dtype, its bit pattern read as the other otherwise
fromfile(dt, word) == IF word.t = dt THEN word.v ELSE 100000 + word.v

\* a file: absent, or present with its content
NoFile == [exists |-> FALSE, data |-> <<>>]
File(d) == [exists |-> TRUE, data |-> d]

\* the parts of the state a component does not use, at rest
EncIdle ==
    /\ stack = <<>> /\ tstable = <<>> /\ meta = [wv |-> 0, n_1 |-> 0, n_2 |-> 0, pz |-> 0]
    /\ bnr = NoFile /\ bnr0 = NoFile /\ t2b = [pc |-> "off"] /\ chk = [pc |-> "off"]
LogIdle == log0 = NoFile /\ logfile = NoFile /\ tr = [pc |-> "off"]
B2TIdle == binfolder = {} /\ listing = <<>> /\ tif = NoFile /\ b2t = [pc |-> "off"]
WinIdle == controls = "normal" /\ mainfolder = ""
ProgIdle == pg = [pc |-> "off"] /\ after_queue = <<>> /\ bar = 0
LoopIdle == ui_writes = {} /\ uiloop = "idle"
PipeIdle ==
    /\ disk0 = <<>> /\ disk = <<>> /\ lins = <<>> /\ present = {} /\ fiji_exe = FALSE
    /\ rp = [pc |-> "off"]

\* round(k * 100 / total) of the exact quotient: nearest integer, ties to even
round(k, total) == RoundTo(100 * k, total) \div total

\* ------------------------------------------------------------------------
\* Python floats (IEEE 754 binary64) as far as x = 100 / total and
\* round(k * x) need them.  A natural number too large for the model
\* checker's integers is a sequence of digits of base 2^15, most significant
\* first; a float is m * 2^e with a 53-bit m.
\* ------------------------------------------------------------------------
Base == 32768

RECURSIVE BigDivRec(_, _, _, _)
BigDivRec(n, d, rem, acc) ==
    IF n = <<>> THEN [q |-> acc, r |-> rem]
    ELSE LET cur == rem * Base + Head(n)
         IN  BigDivRec(Tail(n), d, cur % d, Append(acc, cur \div d))

\* quotient and remainder of n by a divisor d <= 2^15
BigDivSmall(n, d) == BigDivRec(n, d, 0, <<>>)

RECURSIVE BigMulRec(_, _, _)
BigMulRec(n, k, carry) ==
    IF n = <<>> THEN (IF carry = 0 THEN <<>> ELSE <<carry>>)
    ELSE LET v == n[Len(n)] * k + carry
         IN  Append(BigMulRec(SubSeq(n, 1, Len(n) - 1), k, v \div Base), v % Base)

\* n times a factor k < 2^15
BigMulSmall(n, k) == BigMulRec(n, k, 0)

RECURSIVE Trim(_)
Trim(n) == IF n # <<>> /\ Head(n) = 0 THEN Trim(Tail(n)) ELSE n

BitLenSmall(v) == IF v = 0 THEN 0 ELSE CHOOSE b \in 1..15 : 2^(b - 1) <= v /\ v < 2^b

BitLen(n) ==
    LET t == Trim(n) IN IF t = <<>> THEN 0 ELSE 15 * (Len(t) - 1) + BitLenSmall(t[1])

BigIsOdd(n) == n # <<>> /\ n[Len(n)] % 2 = 1

RECURSIVE BigInc(_)
BigInc(n) ==
    IF n = <<>> THEN <<1>>
    ELSE IF n[Len(n)] + 1 < Base THEN [n EXCEPT ![Len(n)] = @ + 1]
    ELSE Append(BigInc(SubSeq(n, 1, Len(n) - 1)), 0)

RECURSIVE BigToInt(_)
BigToInt(n) == IF n = <<>> THEN 0 ELSE BigToInt(SubSeq(n, 1, Len(n) - 1)) * Base + n[Len(n)]

\* n / 2^t (0 <= t <= 15) rounded to nearest, ties to even; sticky says that
\* the exact value lies above n
RoundShift(n, t, sticky) ==
    IF t = 0 THEN n
    ELSE LET dv == BigDivSmall(n, 2^t)
             half == 2^(t - 1)
             up == dv.r > half \/ (dv.r = half /\ (sticky \/ BigIsOdd(dv.q)))
         IN  Trim(IF up THEN BigInc(dv.q) ELSE dv.q)

\* the float of value n * 2^e (n > 0 with 53 to 68 bits), rounded to 53 bits
F64(n, e, sticky) ==
    LET t == BitLen(n) - 53
        m == RoundShift(n, t, sticky)
    IN  IF BitLen(m) = 54 THEN [m |-> BigDivSmall(m, 2).q, e |-> e + t + 1]
        ELSE [m |-> m, e |-> e + t]

\* lines 82, 148: x = 100 / total, the correctly rounded quotient
F64Div100(total) ==
    LET dv == BigDivSmall(<<100, 0, 0, 0, 0>>, total)
    IN  F64(Trim(dv.q), -60, dv.r # 0)

\* k * x for an int k >= 1
F64MulInt(x, k) == F64(Trim(BigMulSmall(x.m, k)), x.e, FALSE)

\* Python's round(y) of a float 0 < y < 2^15: nearest integer, ties to even
PyRound(y) ==
    LET s == -y.e
        g == IF s % 15 = 0 THEN 15 ELSE s % 15
        full == (s - g) \div 15
        hi == SubSeq(y.m, 1, Len(y.m) - full)
        low == SubSeq(y.m, Len(y.m) - full + 1, Len(y.m))
        sticky == \E j \in 1..Len(low) : low[j] # 0
        dv == BigDivSmall(hi, 2^g)
        I == BigToInt(Trim(dv.q))
        half == 2^(g - 1)
        up == dv.r > half \/ (dv.r = half /\ (sticky \/ I % 2 = 1))
    IN  IF up THEN I + 1 ELSE I

\* lines 99, 156: round(i*x) with x = 100 / total, as Python computes it
round_ix(i, total) == IF i = 0 THEN 0 ELSE PyRound(F64MulInt(F64Div100(total), i))

RECURSIVE Flatten(_)
\* ndarray.tofile: the rows one after the other (C order)
Flatten(page) == IF page = <<>> THEN <<>> ELSE Head(page) \o Flatten(Tail(page))

\* ------------------------------------------------------------------------
\* Inputs of tif2bnr: stacks, timestamp tables, metadata
\* ------------------------------------------------------------------------
\* a page of h rows by w columns whose samples count up from b, row by row
Ramp(b, h, w) == [r \in 1..h |-> [c \in 1..w |-> b + (r - 1) * w + (c - 1)]]

Const(v, h, w) == [r \in 1..h |-> [c \in 1..w |-> v]]

\* a page inside the range but for its last sample
Spike(v, h, w) == [r \in 1..h |-> [c \in 1..w |-> IF r = h /\ c = w THEN v ELSE 0]]

FirstFrames(h, w) ==
    {Ramp(1, h, w), Spike(150, h, w)} \cup {Const(v, h, w) : v \in {-101, -100, 100, 101}}

LaterFrames(i, h, w) == {Ramp(1 + 4 * (i - 1), h, w), Const(150, h, w)}

AllFrames(h, w) == FirstFrames(h, w) \cup UNION {LaterFrames(i, h, w) : i \in 2..MaxPages}

\* the stacks of up to MaxPages pages of h by w samples
Stacks(h, w) ==
    UNION {{s \in [1..n -> AllFrames(h, w)] :
               \A i \in 1..n : IF i = 1 THEN s[i] \in FirstFrames(h, w)
                                        ELSE s[i] \in LaterFrames(i, h, w)}
           : n \in 0..MaxPages}

\* a column of a row of the timestamps file: numeric text or not
Tok(v) == [num |-> TRUE, v |-> v]
NotANumber == [num |-> FALSE, v |-> 0]

\* row i of a timestamps file whose times start at t0
OkRow(i, t0) == <<Tok(i - 1), Tok(0), Tok(0), Tok(t0 + 33 * (i - 1))>>
LongRow(i) == OkRow(i, 0) \o <<Tok(0)>>
ShortRow(i) == <<Tok(i - 1), Tok(0), Tok(0)>>
NonNumRow(i) == <<Tok(i - 1), Tok(0), Tok(0), NotANumber>>

\* a table of n rows, all well-formed but row p
OneBad(n, p) ==
    {[i \in 1..n |-> IF i = p THEN ShortRow(i) ELSE OkRow(i, 0)],
     [i \in 1..n |-> IF i = p THEN NonNumRow(i) ELSE OkRow(i, 0)]}

Tables ==
    UNION {{[i \in 1..n |-> OkRow(i, 0)], [i \in 1..n |-> OkRow(i, 301)],
            [i \in 1..n |-> LongRow(i)]} : n \in 0..MaxRows}
    \cup UNION {OneBad(n, 1) \cup OneBad(n, n) : n \in 1..MaxRows}

Metas ==
    {[wv |-> 665, n_1 |-> 1, n_2 |-> 2, pz |-> 301],
     [wv |-> 300, n_1 |-> 3, n_2 |-> 4, pz |-> 7]}

t2bStart ==
    [pc |-> "parse", timestamps |-> <<>>, nImages |-> 0, w |-> 0, h |-> 0, k |-> 0,
     err |-> "none"]

chkStart ==
    [pc |-> "idle", nImages |-> 0, w |-> 0, h |-> 0, floats |-> <<>>, timestamps |-> <<>>,
     phase_map |-> <<>>, phasemin |-> 0, phasemax |-> 0, BNR_check |-> FALSE]

\* a container an earlier call left at the destination path
OldContainer == File(<<Word("i4", 99)>>)

EncInit ==
    /\ \E h \in 1..MaxDim, w \in 1..MaxDim : stack \in Stacks(h, w)
    /\ tstable \in Tables
    /\ meta \in Metas
    /\ bnr0 \in {NoFile, OldContainer}
    /\ bnr = bnr0
    /\ t2b = t2bStart
    /\ chk = chkStart
    /\ Prog_bar = <<>> /\ ProgIdle /\ LoopIdle
    /\ LogIdle /\ B2TIdle /\ WinIdle /\ threads = <<>> /\ well_tif = NoFile /\ PipeIdle

\* ------------------------------------------------------------------------
\* tif2bnr (lines 105-159)
\* ------------------------------------------------------------------------
\* numbers[3] of a row that float() accepts
BadRow(row) == Len(row) < 4 \/ ~row[4].num

\* line 123: time = numpy.single(float(numbers[3]))
ParseRow(row) == float32(row[4].v)

\* the destination opened for writing before the table is parsed
T2B_ReadTimestamps_openfirst ==
    /\ t2b.pc = "parse"
    /\ bnr' = File(<<>>)
    /\ IF \E i \in 1..Len(tstable) : BadRow(tstable[i])
       THEN t2b' = [t2b EXCEPT !.pc = "failed", !.err = "ValueError"]
       ELSE t2b' = [t2b EXCEPT !.pc = "first",
                               !.timestamps = [i \in 1..Len(tstable) |-> ParseRow(tstable[i])],
                               !.nImages = Len(tstable)]
    /\ UNCHANGED <<stack, tstable, meta, bnr0, chk, Prog_bar, notEnc>>

\* lines 117-127: the whole table is parsed before anything else happens
T2B_ReadTimestamps ==
    /\ t2b.pc = "parse"
    /\ IF \E i \in 1..Len(tstable) : BadRow(tstable[i])
       THEN LET i == CHOOSE j \in 1..Len(tstable) :
                         BadRow(tstable[j]) /\ \A m \in 1..(j - 1) : ~BadRow(tstable[m])
            IN  t2b' = [t2b EXCEPT !.pc = "failed",
                                   !.err = IF Len(tstable[i]) < 4 THEN "IndexError"
                                                                  ELSE "ValueError"]
       ELSE t2b' = [t2b EXCEPT !.pc = "first",
                               !.timestamps = [i \in 1..Len(tstable) |-> ParseRow(tstable[i])],
                               !.nImages = Len(tstable)]
    /\ UNCHANGED <<stack, tstable, meta, bnr0, bnr, chk, Prog_bar, notEnc>>

\* lines 130-132: imread(input_file, key=0), w and h of the first page
T2B_FirstImage ==
    /\ t2b.pc = "first"
    /\ IF stack = <<>>
       THEN t2b' = [t2b EXCEPT !.pc = "failed", !.err = "IndexError"]
       ELSE t2b' = [t2b EXCEPT !.pc = "header",
                               !.w = Len(stack[1][1]),
                               !.h = Len(stack[1])]
    /\ UNCHANGED <<stack, tstable, meta, bnr0, bnr, chk, Prog_bar, notEnc>>

\* the header in the order of tif2bnr's parameters (wv, n_1, n_2, pz)
Header_paramorder(nImages, w, h, pz, wv, n_1, n_2) ==
    <<Word("i4", nImages), Word("i4", w), Word("i4", h),
      Word("f4", float32(wv)), Word("f4", float32(n_1)),
      Word("f4", float32(n_2)), Word("f4", float32(pz))>>

\* lines 136-142: the seven header values in the order they are written
Header(nImages, w, h, pz, wv, n_1, n_2) ==
    <<Word("i4", nImages), Word("i4", w), Word("i4", h),
      Word("f4", float32(pz)), Word("f4", float32(wv)),
      Word("f4", float32(n_1)), Word("f4", float32(n_2))>>

\* lines 135-142: open(output_file, 'w') creates or truncates, then the header
T2B_WriteHeader ==
    /\ t2b.pc = "header"
    /\ bnr' = File(Header(t2b.nImages, t2b.w, t2b.h, meta.pz, meta.wv, meta.n_1, meta.n_2))
    /\ t2b' = [t2b EXCEPT !.pc = "ts"]
    /\ UNCHANGED <<stack, tstable, meta, bnr0, chk, Prog_bar, notEnc>>

\* lines 145-146
TimestampWords(timestamps, nImages) ==
    [k \in 1..nImages |-> Word("f4", float32(timestamps[k]))]

\* lines 145-148: the timestamps, then x = 100 / nImages
T2B_WriteTimestamps ==
    /\ t2b.pc = "ts"
    /\ bnr' = File(bnr.data \o TimestampWords(t2b.timestamps, t2b.nImages))
    /\ IF t2b.nImages = 0
       THEN t2b' = [t2b EXCEPT !.pc = "failed", !.err = "ZeroDivisionError"]
       ELSE t2b' = [t2b EXCEPT !.pc = "images", !.k = 0]
    /\ UNCHANGED <<stack, tstable, meta, bnr0, chk, Prog_bar, notEnc>>

\* a page written column by column (Fortran order)
PageWords_colmajor(page) ==
    [j \in 1..(Len(page) * Len(page[1])) |->
        Word("f4", float32(page[((j - 1) % Len(page)) + 1][((j - 1) \div Len(page)) + 1]))]

\* line 154: phase_map.astype(numpy.float32).tofile(fileID)
PageWords(page) ==
    LET flat == Flatten(page)
    IN  [j \in 1..Len(flat) |-> Word("f4", float32(flat[j]))]

\* the loop ending quietly at the last page of the stack
T2B_WriteImage_break ==
    /\ t2b.pc = "images"
    /\ t2b.k < t2b.nImages
    /\ IF t2b.k + 1 > Len(stack)
       THEN /\ t2b' = [t2b EXCEPT !.k = t2b.nImages]
            /\ UNCHANGED <<bnr, Prog_bar>>
       ELSE /\ bnr' = File(bnr.data \o PageWords(stack[t2b.k + 1]))
            /\ Prog_bar' = Append(Prog_bar, round_ix(t2b.k, t2b.nImages))
            /\ t2b' = [t2b EXCEPT !.k = t2b.k + 1]
    /\ UNCHANGED <<stack, tstable, meta, bnr0, chk, notEnc>>

\* lines 151-156, one pass of the loop: page k is read and written whole
T2B_WriteImage ==
    /\ t2b.pc = "images"
    /\ t2b.k < t2b.nImages
    /\ IF t2b.k + 1 > Len(stack)
       THEN /\ t2b' = [t2b EXCEPT !.pc = "failed", !.err = "IndexError"]
            /\ UNCHANGED <<bnr, Prog_bar>>
       ELSE /\ bnr' = File(bnr.data \o PageWords(stack[t2b.k + 1]))
            /\ Prog_bar' = Append(Prog_bar, round_ix(t2b.k, t2b.nImages))
            /\ t2b' = [t2b EXCEPT !.k = t2b.k + 1]
    /\ UNCHANGED <<stack, tstable, meta, bnr0, chk, notEnc>>

\* lines 158-159
T2B_Close ==
    /\ t2b.pc = "images"
    /\ t2b.k = t2b.nImages
    /\ t2b' = [t2b EXCEPT !.pc = "done"]
    /\ Prog_bar' = Append(Prog_bar, 0)
    /\ UNCHANGED <<stack, tstable, meta, bnr0, bnr, chk, notEnc>>

\* ------------------------------------------------------------------------
\* The container check of run_process (lines 423-458) on one container
\* ------------------------------------------------------------------------
\* lines 426-436: three i4, then four f4
ReadHeader(f) ==
    [nImages |-> fromfile("i4", f[1]), w |-> fromfile("i4", f[2]), h |-> fromfile("i4", f[3]),
     floats |-> [j \in 1..4 |-> fromfile("f4", f[4 + j - 1])]]

\* lines 437-440: nImages values read as i4 and never used
SkipTimestamps(f, nImages) == [k \in 1..nImages |-> fromfile("i4", f[7 + k])]

\* the first image read right after the header
ReadFrame_noskip(f, nImages, w, h) ==
    [r \in 1..h |-> [c \in 1..w |-> fromfile("f4", f[7 + (r - 1) * w + c])]]

\* lines 443-446: row k is the next w values
ReadFrame(f, nImages, w, h) ==
    [r \in 1..h |-> [c \in 1..w |-> fromfile("f4", f[7 + nImages + (r - 1) * w + c])]]

\* lines 426-447: header, timestamps, first image
Chk_Read ==
    /\ t2b.pc = "done"
    /\ chk.pc = "idle"
    /\ LET hd == ReadHeader(bnr.data)
       IN  IF Len(bnr.data) < 7 + hd.nImages + hd.h * hd.w
           THEN chk' = [chk EXCEPT !.pc = "failed"]
           ELSE chk' = [chk EXCEPT !.pc = "read",
                                   !.nImages = hd.nImages, !.w = hd.w, !.h = hd.h,
                                   !.floats = hd.floats,
                                   !.timestamps = SkipTimestamps(bnr.data, hd.nImages),
                                   !.phase_map = ReadFrame(bnr.data, hd.nImages, hd.w, hd.h)]
    /\ UNCHANGED <<stack, tstable, meta, bnr0, bnr, t2b, Prog_bar, notEnc>>

Samples(pm) == {pm[r][c] : r \in 1..Len(pm), c \in 1..Len(pm[1])}
Min(S) == CHOOSE m \in S : \A x \in S : m <= x
Max(S) == CHOOSE m \in S : \A x \in S : m >= x

\* the bounds taken as outside the range
OutOfRange_inclusive(phasemin, phasemax) == phasemin <= -100 \/ phasemax >= 100

\* line 452
OutOfRange(phasemin, phasemax) == phasemin < -100 \/ phasemax > 100

\* lines 449-458
Chk_Range ==
    /\ chk.pc = "read"
    /\ LET lo == Min(Samples(chk.phase_map))
           hi == Max(Samples(chk.phase_map))
       IN  chk' = [chk EXCEPT !.pc = "checked", !.phasemin = lo, !.phasemax = hi,
                              !.BNR_check = OutOfRange(lo, hi)]
    /\ UNCHANGED <<stack, tstable, meta, bnr0, bnr, t2b, Prog_bar, notEnc>>

EncNext ==
    \/ T2B_ReadTimestamps
    \/ T2B_FirstImage
    \/ T2B_WriteHeader
    \/ T2B_WriteTimestamps
    \/ T2B_WriteImage
    \/ T2B_Close
    \/ Chk_Read
    \/ Chk_Range

SpecEnc == EncInit /\ [][EncNext]_vars

\* ------------------------------------------------------------------------
\* The registration log translation (run_process lines 370-384; the same
\* statements are lines 572-586 of Align_single and 653-667 of
\* Conv_align_single).  A line is a sequence of symbols: "TM" is the text
\* "Transformation Matrix: ", "AT" the text "AffineTransform", " " a blank;
\* the other symbols are brackets, commas and runs of other characters.
\* ------------------------------------------------------------------------
\* line 32: the parameter preamble written first
SIFT_paras_string == <<"SIFT_paras_string">>

MatrixLine(tx, ty) ==
    <<"TM", "AT", "[", "[", "1.0", ",", " ", "0.0", ",", " ", tx, "]", ",", " ",
      "[", "0.0", ",", " ", "1.0", ",", " ", ty, "]", "]">>

LineA == MatrixLine("5.25", "-3.1")
LineB == <<" ", "txt", " ">> \o MatrixLine("7.5", "2.0") \o <<" ">>
LineText == <<"txt", " ", "txt">>
\* "AffineTransform" without the marker text in front of it
LineBare == <<"txt", " ", "AT", "[", "[", "1.0", ",", "0.0", ",", "9.9", "]", "]">>
\* a marker line with two tokens after the marker
LineCut == <<"TM", "AT", "[", "[", "1.0", ",", " ", "0.0", "]", "]">>

LogLines == {LineA, LineB, LineText, LineBare, LineCut}

Logs == UNION {[1..n -> LogLines] : n \in 0..MaxLines}

\* line 375: "Transformation Matrix: AffineTransform" in line
HasMarker(line) == \E i \in 1..(Len(line) - 1) : line[i] = "TM" /\ line[i + 1] = "AT"

RECURSIVE lstrip(_)
lstrip(s) == IF s # <<>> /\ Head(s) = " " THEN lstrip(Tail(s)) ELSE s

RECURSIVE rstrip(_)
rstrip(s) == IF s # <<>> /\ s[Len(s)] = " " THEN rstrip(SubSeq(s, 1, Len(s) - 1)) ELSE s

\* str.strip()
strip(s) == rstrip(lstrip(s))

RECURSIVE split(_, _)
\* str.split(sep): the pieces between the occurrences of sep
split(s, sep) ==
    IF \E i \in 1..Len(s) : s[i] = sep
    THEN LET i == CHOOSE j \in 1..Len(s) : s[j] = sep /\ \A m \in 1..(j - 1) : s[m] # sep
         IN  <<SubSeq(s, 1, i - 1)>> \o split(SubSeq(s, i + 1, Len(s)), sep)
    ELSE <<s>>

\* lines 377-378: string.replace("[", "").replace("]", "")
NoBrackets(s) == SelectSeq(s, LAMBDA c : c \notin {"[", "]"})

\* lines 374-380: the trimmed tokens after "AffineTransform"
Tokens(line) ==
    LET lin == strip(line)
        string == NoBrackets(split(lin, "AT")[2])
        xxx == split(string, ",")
    IN  [j \in 1..Len(xxx) |-> strip(xxx[j])]

\* the shift line built from the second and fifth token
ShiftLine_offbyone(aaa) == aaa[2] \o <<",">> \o aaa[5]

\* line 381: aaa[2] + "," + aaa[5] + "\n"
ShiftLine(aaa) == aaa[3] \o <<",">> \o aaa[6]

\* rd, wr: the file object of line 371 and the one of line 382
trStart ==
    [pc |-> "open", i |-> 0, shiftstr |-> <<>>, err |-> "none",
     rd |-> "none", wr |-> "none"]

LogInit ==
    /\ log0 \in {File(l) : l \in Logs} \cup {NoFile}
    /\ logfile = log0
    /\ tr = trStart
    /\ Prog_bar = <<>> /\ ProgIdle /\ LoopIdle
    /\ EncIdle /\ B2TIdle /\ WinIdle /\ threads = <<>> /\ well_tif = NoFile /\ PipeIdle

\* line 371: open(log_out_file, 'r')
Log_Open ==
    /\ tr.pc = "open"
    /\ IF logfile = NoFile
       THEN tr' = [tr EXCEPT !.pc = "failed", !.err = "FileNotFoundError"]
       ELSE tr' = [tr EXCEPT !.pc = "lines", !.rd = "open"]
    /\ UNCHANGED <<log0, logfile, notLog>>

\* a marker line with too few tokens is left out and the loop goes on
Log_Line_lenient ==
    /\ tr.pc = "lines"
    /\ tr.i < Len(logfile.data)
    /\ LET line == logfile.data[tr.i + 1]
       IN  IF ~HasMarker(line) \/ Len(Tokens(line)) < 6
           THEN tr' = [tr EXCEPT !.i = tr.i + 1]
           ELSE tr' = [tr EXCEPT !.i = tr.i + 1,
                                 !.shiftstr = Append(tr.shiftstr, ShiftLine(Tokens(line)))]
    /\ UNCHANGED <<log0, logfile, notLog>>

\* lines 373-381, one pass of the loop; the IndexError of line 381 leaves
\* the with block, which closes the file
Log_Line ==
    /\ tr.pc = "lines"
    /\ tr.i < Len(logfile.data)
    /\ LET line == logfile.data[tr.i + 1]
       IN  IF ~HasMarker(line)
           THEN tr' = [tr EXCEPT !.i = tr.i + 1]
           ELSE IF Len(Tokens(line)) < 6
                THEN tr' = [tr EXCEPT !.pc = "failed", !.err = "IndexError", !.rd = "closed"]
                ELSE tr' = [tr EXCEPT !.i = tr.i + 1,
                                      !.shiftstr = Append(tr.shiftstr, ShiftLine(Tokens(line)))]
    /\ UNCHANGED <<log0, logfile, notLog>>

\* lines 373, 382: the loop ends at the end of the file, the with block
\* closes it and open(log_out_file, 'w') empties it
Log_OpenW ==
    /\ tr.pc = "lines"
    /\ tr.i = Len(logfile.data)
    /\ logfile' = File(<<>>)
    /\ tr' = [tr EXCEPT !.pc = "write", !.rd = "closed", !.wr = "open"]
    /\ UNCHANGED <<log0, notLog>>

\* lines 383-384: the two writes, and the end of the with block
Log_Write ==
    /\ tr.pc = "write"
    /\ logfile' = File(<<SIFT_paras_string>> \o tr.shiftstr)
    /\ tr' = [tr EXCEPT !.pc = "done", !.wr = "closed"]
    /\ UNCHANGED <<log0, notLog>>

LogNext == Log_Open \/ Log_Line \/ Log_OpenW \/ Log_Write

SpecLog == LogInit /\ [][LogNext]_vars

\* ------------------------------------------------------------------------
\* Properties of the log translation
\* ------------------------------------------------------------------------
\* the shift line each line of the catalogue stands for, written out by hand
Expected(line) ==
    IF line = LineA THEN <<<<"5.25", ",", "-3.1">>>>
    ELSE IF line = LineB THEN <<<<"7.5", ",", "2.0">>>>
    ELSE <<>>

RECURSIVE ExpectedShifts(_)
ExpectedShifts(log) ==
    IF log = <<>> THEN <<>> ELSE Expected(Head(log)) \o ExpectedShifts(Tail(log))

\* C8: for a log with k >= 0 marker lines (each with its six tokens) the
\* rewritten log is the preamble followed by exactly k lines "tx,ty", built
\* from tokens 2 and 5 after the marker, in file order; the other lines add
\* nothing, and with k = 0 the preamble alone is written, without an error.
C8_LogTranslation ==
    /\ tr.pc = "done" =>
          /\ logfile.exists
          /\ logfile.data = <<SIFT_paras_string>> \o ExpectedShifts(log0.data)
    /\ (tr.pc = "failed" /\ log0.exists) =>
          \E i \in 1..Len(log0.data) : log0.data[i] = LineCut
    /\ (tr.pc = "lines" /\ tr.i = Len(log0.data)) => tr.shiftstr = ExpectedShifts(log0.data)

C8_Witness ==
    /\ tr.pc = "done"
    /\ log0.data = <<LineA, LineText, LineB, LineA>>
    /\ logfile.data = <<SIFT_paras_string, <<"5.25", ",", "-3.1">>, <<"7.5", ",", "2.0">>,
                   <<"5.25", ",", "-3.1">>>>

C8_WitnessNoMarker ==
    /\ tr.pc = "done"
    /\ log0.data = <<LineText, LineBare>>
    /\ logfile.data = <<SIFT_paras_string>>

\* a marker line of the log has fewer than 6 tokens after the marker
CutLine(line) == HasMarker(line) /\ Len(Tokens(line)) < 6
HasCutLine(f) == f.exists /\ \E j \in 1..Len(f.data) : CutLine(f.data[j])

\* C18: the log is read to its end and closed before it is opened for
\* writing, the two file objects are never open together, and a marker line
\* with fewer than 6 tokens ends the run before the file is opened for
\* writing, so that the log keeps the content the tool gave it.
C18_ReadFullyThenOverwrite ==
    /\ tr.wr # "none" => tr.rd = "closed" /\ tr.i = Len(log0.data)
    /\ ~(tr.rd = "open" /\ tr.wr = "open")
    /\ tr.wr = "none" => logfile = log0
    /\ HasCutLine(log0) => tr.wr = "none" /\ tr.pc \notin {"write", "done"}
    /\ tr.pc = "failed" => logfile = log0 /\ tr.rd # "open" /\ tr.wr = "none"
    /\ (tr.pc = "lines" /\ tr.i = Len(log0.data)) => ~HasCutLine(log0)

\* a log whose second marker line is cut short: the first shift was already
\* collected when the run failed
C18_Witness ==
    /\ tr.pc = "failed" /\ tr.err = "IndexError"
    /\ tr.shiftstr # <<>> /\ tr.rd = "closed"
    /\ logfile = log0

\* a log read to its end and rewritten
C18_WitnessRewritten ==
    /\ tr.pc = "done" /\ tr.rd = "closed" /\ tr.wr = "closed"
    /\ Len(log0.data) = MaxLines /\ logfile # log0

\* ------------------------------------------------------------------------
\* bin2tif (lines 68-102).  A file name is a sequence of characters; "b"
\* stands for the letters "bin" and "t" for "txt".
\* ------------------------------------------------------------------------
\* the code points Python compares strings by
ord(c) ==
    CASE c = "." -> 46 [] c = "0" -> 48 [] c = "1" -> 49 [] c = "2" -> 50
      [] c = "_" -> 95 [] c = "b" -> 98 [] c = "t" -> 116

RECURSIVE StrLess(_, _)
\* a < b for two Python strings
StrLess(a, b) ==
    IF b = <<>> THEN FALSE
    ELSE IF a = <<>> THEN TRUE
    ELSE IF ord(Head(a)) # ord(Head(b)) THEN ord(Head(a)) < ord(Head(b))
    ELSE StrLess(Tail(a), Tail(b))

Name0 == <<"0", ".", "b">>
Name1 == <<"1", ".", "b">>
Name10 == <<"1", "0", ".", "b">>
Name2 == <<"2", ".", "b">>
Name1_ == <<"1", "_", ".", "b">>
NameTxt == <<"0", ".", "t">>
NameBinTxt == <<"1", ".", "b", ".", "t">>

FileNames == {Name0, Name1, Name10, Name2, Name1_, NameTxt, NameBinTxt}

\* line 79: f.endswith('.bin')
endswith_bin(f) == Len(f) >= 2 /\ f[Len(f) - 1] = "." /\ f[Len(f)] = "b"

RECURSIVE insert(_, _)
insert(x, s) ==
    IF s = <<>> THEN <<x>>
    ELSE IF StrLess(x, Head(s)) THEN <<x>> \o s
    ELSE <<Head(s)>> \o insert(x, Tail(s))

RECURSIVE sorted_rec(_)
sorted_rec(s) == IF s = <<>> THEN <<>> ELSE insert(Head(s), sorted_rec(Tail(s)))

\* the list left in the order os.listdir gave
sorted_listdir(s) == s

\* line 79: sorted(...)
sorted(s) == sorted_rec(s)

\* line 87: the page binkoala.read_mat_bin decodes from a file
read_mat_bin(f) == [from |-> f]

\* the orders os.listdir may return the names of a folder in
Listings(S) == {l \in [1..Cardinality(S) -> S] : \A i, j \in 1..Cardinality(S) : i # j => l[i] # l[j]}

b2tStart == [pc |-> "list", bin_files |-> <<>>, total_files |-> 0, i |-> 0, err |-> "none"]

B2TInit ==
    /\ binfolder \in {S \in SUBSET FileNames : Cardinality(S) <= MaxFiles}
    /\ listing \in Listings(binfolder)
    /\ tif = NoFile
    /\ b2t = b2tStart
    /\ Prog_bar = <<>> /\ ProgIdle /\ LoopIdle
    /\ EncIdle /\ LogIdle /\ WinIdle /\ threads = <<>> /\ well_tif = NoFile /\ PipeIdle

\* lines 78-82: the sorted list of .bin files, then x = 100 / total_files
B2T_List ==
    /\ b2t.pc = "list"
    /\ LET bin_files == sorted(SelectSeq(listing, endswith_bin))
       IN  IF Len(bin_files) = 0
           THEN b2t' = [b2t EXCEPT !.pc = "failed", !.err = "ZeroDivisionError",
                                   !.bin_files = bin_files]
           ELSE b2t' = [b2t EXCEPT !.pc = "loop", !.bin_files = bin_files,
                                   !.total_files = Len(bin_files)]
    /\ UNCHANGED <<binfolder, listing, tif, Prog_bar, notB2T>>

\* lines 89-96: imwrite(output_file, phase_map, append=True)
imwrite_append(file, page) == File(Append(file.data, page))

\* lines 84-99, one pass of the loop
B2T_Page ==
    /\ b2t.pc = "loop"
    /\ b2t.i < b2t.total_files
    /\ tif' = imwrite_append(tif, read_mat_bin(b2t.bin_files[b2t.i + 1]))
    /\ Prog_bar' = Append(Prog_bar, round_ix(b2t.i, b2t.total_files))
    /\ b2t' = [b2t EXCEPT !.i = b2t.i + 1]
    /\ UNCHANGED <<binfolder, listing, notB2T>>

\* line 102
B2T_Done ==
    /\ b2t.pc = "loop"
    /\ b2t.i = b2t.total_files
    /\ b2t' = [b2t EXCEPT !.pc = "done"]
    /\ Prog_bar' = Append(Prog_bar, 0)
    /\ UNCHANGED <<binfolder, listing, tif, notB2T>>

B2TNext == B2T_List \/ B2T_Page \/ B2T_Done

SpecB2T == B2TInit /\ [][B2TNext]_vars

\* ------------------------------------------------------------------------
\* Properties of bin2tif
\* ------------------------------------------------------------------------
\* the '.bin' names of the catalogue in ascending order, written out by hand:
\* "0.bin" < "1.bin" < "10.bin" < "1_.bin" < "2.bin"
BinNamesAscending == <<Name0, Name1, Name10, Name1_, Name2>>

\* C9: the stack gets exactly one page per '.bin' file of the folder, in
\* ascending lexicographic order of the file names whatever the order of the
\* directory listing; page i of the finished stack is the decoded i-th file.
C9_PagesInNameOrder ==
    LET want == SelectSeq(BinNamesAscending, LAMBDA f : f \in binfolder)
    IN  /\ b2t.pc = "done" =>
              /\ tif.exists
              /\ Len(tif.data) = Len(want)
              /\ \A i \in 1..Len(want) : tif.data[i] = [from |-> want[i]]
        /\ b2t.pc = "loop" =>
              /\ b2t.i = Len(tif.data)
              /\ \A i \in 1..b2t.i : tif.data[i] = [from |-> want[i]]

C9_Witness ==
    /\ b2t.pc = "done"
    /\ listing = <<Name2, NameTxt, Name10, Name1>>
    /\ tif.data = <<[from |-> Name1], [from |-> Name10], [from |-> Name2]>>

\* ------------------------------------------------------------------------
\* The progress values of bin2tif (lines 81-102) and tif2bnr (lines
\* 148-159): the worker posts root.after(0, safe_update, v) once per frame
\* and once after the loop, and the UI loop applies the posted calls in the
\* order they were posted.
\* ------------------------------------------------------------------------
MaxTotal == 24

Workers == {"bin2tif", "tif2bnr"}

\* lines 81-82, 148: total frames of the sequence, x = 100 / total
PGInit ==
    /\ \E who \in Workers, total \in 1..MaxTotal :
          pg = [pc |-> "loop", who |-> who, total |-> total, i |-> 0]
    /\ Prog_bar = <<>> /\ after_queue = <<>> /\ bar = 0
    /\ EncIdle /\ LogIdle /\ B2TIdle /\ WinIdle /\ PipeIdle /\ LoopIdle
    /\ threads = <<>> /\ well_tif = <<>>

\* lines 84-99, 151-156: one pass of the loop
PG_Frame ==
    /\ pg.pc = "loop"
    /\ pg.i < pg.total
    /\ Prog_bar' = Append(Prog_bar, round_ix(pg.i, pg.total))
    /\ after_queue' = Append(after_queue, round_ix(pg.i, pg.total))
    /\ pg' = [pg EXCEPT !.i = pg.i + 1]
    /\ UNCHANGED <<bar, notProg>>

\* the loop ends without the final value
PG_Done_noreset ==
    /\ pg.pc = "loop"
    /\ pg.i = pg.total
    /\ pg' = [pg EXCEPT !.pc = "done"]
    /\ UNCHANGED <<Prog_bar, after_queue, bar, notProg>>

\* lines 102, 159: after the loop
PG_Done ==
    /\ pg.pc = "loop"
    /\ pg.i = pg.total
    /\ Prog_bar' = Append(Prog_bar, 0)
    /\ after_queue' = Append(after_queue, 0)
    /\ pg' = [pg EXCEPT !.pc = "done"]
    /\ UNCHANGED <<bar, notProg>>

\* lines 74-75, 113-114: the UI loop runs the oldest posted call
safe_update ==
    /\ after_queue # <<>>
    /\ bar' = Head(after_queue)
    /\ after_queue' = Tail(after_queue)
    /\ UNCHANGED <<pg, Prog_bar, notProg>>

ProgNext == PG_Frame \/ PG_Done \/ safe_update

SpecProgress == PGInit /\ [][ProgNext]_vars

\* ------------------------------------------------------------------------
\* Properties of the progress values
\* ------------------------------------------------------------------------
\* index * 100 / total lies exactly halfway between two integers
Halfway(i, total) == (200 * i) % total = 0 /\ ((200 * i) \div total) % 2 = 1

Applied == Len(Prog_bar) - Len(after_queue)

\* one value per frame in frame order, then exactly one final value; the
\* posted calls are applied in posting order
ProgressShape ==
    /\ Len(Prog_bar) = pg.i + (IF pg.pc = "done" THEN 1 ELSE 0)
    /\ pg.pc = "done" => pg.i = pg.total /\ Prog_bar[pg.total + 1] = 0
    /\ \A j \in 1..pg.i : Prog_bar[j] \in 0..100
    /\ \A j \in 1..pg.i : \A k \in j..pg.i : Prog_bar[j] <= Prog_bar[k]
    /\ Applied >= 0
    /\ after_queue = SubSeq(Prog_bar, Applied + 1, Len(Prog_bar))
    /\ bar = (IF Applied = 0 THEN 0 ELSE Prog_bar[Applied])
    /\ (pg.pc = "done" /\ after_queue = <<>>) => bar = 0

\* C16 (as stated): one value per frame in frame order, each equal to
\* round(index * 100 / total), within 0..100 and never decreasing; then
\* exactly one final 0, and the bar shows 0 once everything is applied.
C16_ProgressExact ==
    pg.pc # "off" =>
        /\ ProgressShape
        /\ \A j \in 1..pg.i : Prog_bar[j] = round(j - 1, pg.total)

\* C16 (amended): as above, but the value of a frame is round(index * x)
\* with x = 100 / total rounded to a float first: it equals
\* round(index * 100 / total) unless index * 100 / total lies exactly
\* halfway between two integers, and then it is one of the two neighbours.
C16_ProgressFloat ==
    pg.pc # "off" =>
        /\ ProgressShape
        /\ \A j \in 1..pg.i :
              IF Halfway(j - 1, pg.total)
              THEN Prog_bar[j] \in {(100 * (j - 1)) \div pg.total,
                                    (100 * (j - 1)) \div pg.total + 1}
              ELSE Prog_bar[j] = round(j - 1, pg.total)

\* a finished run of 24 frames whose frame 15 posted 63 (the exact quotient
\* 62.5 rounds to 62), everything applied and the bar back at 0
C16_Witness ==
    /\ pg.pc = "done" /\ pg.total = 24
    /\ Prog_bar[16] = 63 /\ round(15, 24) = 62
    /\ after_queue = <<>> /\ bar = 0

\* ------------------------------------------------------------------------
\* The window and the worker threads: start_process (lines 274-287), the
\* first and last statements of the four thread targets, and the two
\* handlers that run on the UI loop itself (choose_folder, Align_single).
\* ------------------------------------------------------------------------
\* lines 276-287: the thread target of each mode
Target(mode) ==
    CASE mode = "auto" -> "run_process"
      [] mode = "sinlge" -> "Conv_align_single"
      [] mode = "b2t" -> "Convert_single_bin2tif"
      [] mode = "t2b" -> "Convert_single_tif2bnr"

Modes == {"auto", "sinlge", "b2t", "t2b"}

Live(t) == threads[t].pc # "finished"

\* the thread's target calls bin2tif on the stack of the first well
WritesWellTif(t) == threads[t].target = "run_process"

\* a widget change and the thread that made it
By(widget, who) == [widget |-> widget, by |-> who]

UIInit ==
    /\ controls = "normal"
    /\ mainfolder = ""
    /\ threads = <<>>
    /\ well_tif \in {NoFile, File(<<0>>)}
    /\ Prog_bar = <<>> /\ ProgIdle
    /\ ui_writes = {}
    /\ uiloop = "idle"
    /\ EncIdle /\ LogIdle /\ B2TIdle /\ PipeIdle

\* lines 838, 854, 859, 863 and 274-287: a click on an enabled start button
\* runs start_process on the UI loop, which starts a thread and returns
start_process ==
    /\ uiloop = "idle"
    /\ controls = "normal"
    /\ Len(threads) < MaxThreads
    /\ \E mode \in Modes :
          threads' = Append(threads, [target |-> Target(mode), pc |-> "started",
                                      pages |-> 0, fresh |-> TRUE])
    /\ UNCHANGED <<controls, mainfolder, well_tif, loopVars, notUI>>

\* lines 291, 472, 512, 593: the thread's first statement is all_off(...),
\* W.config(state="disabled") executed by the thread itself (lines 54-59)
Thread_all_off ==
    \E t \in 1..Len(threads) :
        /\ uiloop # "exited"
        /\ threads[t].pc = "started"
        /\ controls' = "disabled"
        /\ ui_writes' = ui_writes \cup {By("controls", "worker")}
        /\ threads' = [threads EXCEPT ![t].pc = "body"]
        /\ UNCHANGED <<mainfolder, well_tif, uiloop, notUI>>

\* lines 293-296: run_process returns when no folder is chosen
Thread_NoFolder ==
    \E t \in 1..Len(threads) :
        /\ uiloop # "exited"
        /\ threads[t].pc = "body"
        /\ threads[t].target = "run_process"
        /\ mainfolder = ""
        /\ threads' = [threads EXCEPT ![t].pc = "finished"]
        /\ UNCHANGED <<controls, mainfolder, well_tif, loopVars, notUI>>

\* lines 482-484: Convert_single_bin2tif finds no 00000_phase.bin and calls
\* append_info(...) itself
Thread_NoBinFile ==
    \E t \in 1..Len(threads) :
        /\ uiloop # "exited"
        /\ threads[t].pc = "body"
        /\ threads[t].target = "Convert_single_bin2tif"
        /\ ui_writes' = ui_writes \cup {By("info_box", "worker")}
        /\ threads' = [threads EXCEPT ![t].pc = "tail"]
        /\ UNCHANGED <<controls, mainfolder, well_tif, uiloop, notUI>>

\* lines 351-355: run_process composes the first well's stack path and
\* removes the file if it is there
Thread_RemoveTif ==
    \E t \in 1..Len(threads) :
        /\ uiloop # "exited"
        /\ threads[t].pc = "body"
        /\ WritesWellTif(t)
        /\ mainfolder # ""
        /\ well_tif' = NoFile
        /\ threads' = [threads EXCEPT ![t].pc = "bin2tif"]
        /\ UNCHANGED <<controls, mainfolder, loopVars, notUI>>

\* lines 84-96: one turn of bin2tif's loop, imwrite(output_file, ..., append=True)
Thread_Page ==
    \E t \in 1..Len(threads) :
        /\ uiloop # "exited"
        /\ threads[t].pc = "bin2tif"
        /\ well_tif' = File(Append(well_tif.data, t))
        /\ threads' = [threads EXCEPT
                          ![t].pages = @ + 1,
                          ![t].fresh = IF threads[t].pages = 0 THEN ~well_tif.exists ELSE @,
                          ![t].pc = IF threads[t].pages + 1 = MaxBins THEN "tail" ELSE @]
        /\ UNCHANGED <<controls, mainfolder, loopVars, notUI>>

\* lines 82, 123, 152, 371 and Call_imageJ_SIFTreg.py line 75: an exception
\* nobody catches ends the thread where it is raised
Thread_Raise ==
    \E t \in 1..Len(threads) :
        /\ uiloop # "exited"
        /\ threads[t].pc \in {"body", "bin2tif", "tail"}
        /\ threads[t].target = "run_process" => mainfolder # ""
        /\ threads' = [threads EXCEPT ![t].pc = "finished"]
        /\ UNCHANGED <<controls, mainfolder, well_tif, loopVars, notUI>>

\* lines 468, 508, 547, 728: the thread's last statement is all_on(...)
Thread_all_on ==
    \E t \in 1..Len(threads) :
        /\ uiloop # "exited"
        /\ threads[t].pc \in {"body", "tail"}
        /\ threads[t].target = "run_process" => mainfolder # ""
        /\ controls' = "normal"
        /\ ui_writes' = ui_writes \cup {By("controls", "worker")}
        /\ threads' = [threads EXCEPT ![t].pc = "finished"]
        /\ UNCHANGED <<mainfolder, well_tif, uiloop, notUI>>

\* lines 744 and 213-229: Browse sets the main folder unless the dialog is cancelled
choose_folder ==
    /\ uiloop = "idle"
    /\ controls = "normal"
    /\ \E folder \in {"", "folder"} :
          mainfolder' = IF folder # "" THEN folder ELSE mainfolder
    /\ ui_writes' = ui_writes \cup {By("entry", "UI loop")}
    /\ UNCHANGED <<controls, threads, well_tif, uiloop, notUI>>

\* lines 861 and 551: the click on "Align single sequence" runs Align_single
\* on the UI loop; its first statement is all_off(...)
AS_all_off ==
    /\ uiloop = "idle"
    /\ controls = "normal"
    /\ controls' = "disabled"
    /\ ui_writes' = ui_writes \cup {By("controls", "UI loop")}
    /\ uiloop' = "dialogs"
    /\ UNCHANGED <<mainfolder, threads, well_tif, notUI>>

\* lines 553-566: the file dialog and the overwrite question
AS_Dialogs ==
    /\ uiloop = "dialogs"
    /\ \E go_on \in BOOLEAN : uiloop' = IF go_on THEN "register" ELSE "all_on"
    /\ UNCHANGED <<controls, mainfolder, threads, well_tif, ui_writes, notUI>>

\* line 571 and Call_imageJ_SIFTreg.py lines 73-92: SystemExit when the
\* executable is missing (it leaves the main loop), else the process is started
AS_Popen ==
    /\ uiloop = "register"
    /\ \E exe \in BOOLEAN : uiloop' = IF exe THEN "process.wait" ELSE "exited"
    /\ UNCHANGED <<controls, mainfolder, threads, well_tif, ui_writes, notUI>>

\* Call_imageJ_SIFTreg.py line 102: process.wait() returns when the external
\* process has exited
AS_ProcessExit ==
    /\ uiloop = "process.wait"
    /\ uiloop' = "log"
    /\ UNCHANGED <<controls, mainfolder, threads, well_tif, ui_writes, notUI>>

\* lines 573-587: the log translated, or the exception that ends the handler
AS_Log ==
    /\ uiloop = "log"
    /\ \E ok \in BOOLEAN : uiloop' = IF ok THEN "all_on" ELSE "idle"
    /\ UNCHANGED <<controls, mainfolder, threads, well_tif, ui_writes, notUI>>

\* line 589
AS_all_on ==
    /\ uiloop = "all_on"
    /\ controls' = "normal"
    /\ ui_writes' = ui_writes \cup {By("controls", "UI loop")}
    /\ uiloop' = "idle"
    /\ UNCHANGED <<mainfolder, threads, well_tif, notUI>>

\* lines 549-589
Align_single ==
    \/ AS_all_off
    \/ AS_Dialogs
    \/ AS_Popen
    \/ AS_ProcessExit
    \/ AS_Log
    \/ AS_all_on

UINext ==
    \/ start_process
    \/ Thread_all_off
    \/ Thread_NoFolder
    \/ Thread_NoBinFile
    \/ Thread_RemoveTif
    \/ Thread_Page
    \/ Thread_Raise
    \/ Thread_all_on
    \/ choose_folder
    \/ Align_single

SpecUI == UIInit /\ [][UINext]_vars

\* ------------------------------------------------------------------------
\* Properties of the window and the worker threads
\* ------------------------------------------------------------------------
\* C1: at most one pipeline worker (run_process, Conv_align_single,
\* Convert_single_bin2tif, Convert_single_tif2bnr) is executing at any time.
C1_AtMostOneWorker ==
    Cardinality({t \in 1..Len(threads) : Live(t)}) <= 1

\* C1, second half: while a started worker has not finished, the controls
\* that start a pipeline are disabled.
C1_ControlsOffWhileWorker ==
    (\E t \in 1..Len(threads) : Live(t)) => controls = "disabled"

\* C10: when bin2tif appends its first page the destination stack does not
\* exist, so the stack holds only the pages written by one run: every thread
\* that has appended a page found no file at its first append, and all pages
\* of the stack come from the same thread.
C10_StackOfOneRun ==
    /\ \A t \in 1..Len(threads) : threads[t].pages > 0 => threads[t].fresh
    /\ \A i, j \in 1..Len(well_tif.data) : well_tif.data[i] = well_tif.data[j]

\* C14: no step executed on a worker thread changes a widget (progress bar,
\* info box, state of the controls, entry variables): every widget change is
\* made by the UI loop.
C14_OnlyUILoopTouchesWidgets ==
    \A x \in ui_writes : x.by = "UI loop"

\* C15: the UI thread never waits for the external registration process:
\* every control that triggers registration hands the work to a worker.
C15_UILoopNeverWaits ==
    uiloop # "process.wait"

\* C19: once every started worker has stopped and the UI loop is out of its
\* handlers, the controls are enabled: no way a handler can end leaves them
\* disabled.
C19_ControlsBackOn ==
    (uiloop = "idle" /\ \A t \in 1..Len(threads) : ~Live(t)) => controls = "normal"

\* ------------------------------------------------------------------------
\* The output files of a handler.  A file's content is the sequence of the
\* writes that made it: "old" for what an earlier run left, "new" for what
\* this run wrote.  Well w of the model is Wells[w - 1]; the files of the
\* single-sequence handlers ("0000X_0000X_...") are those of well 0.
\* ------------------------------------------------------------------------
Tags == {"A", "B"}

\* lines 301, 351, 487, 618: <folder>/<well>_phase.tif
Tif(w) == [kind |-> "tif", n |-> w, tag |-> "-"]
\* lines 304, 364, 619: <folder>/<well>_phase_aligned.tif
Aligned(w) == [kind |-> "aligned", n |-> w, tag |-> "-"]
\* lines 366, 649: the registration log
Log(w) == [kind |-> "log", n |-> w, tag |-> "-"]
\* lines 308-313, 396-401: ..._w<n>_<lin>_....bnr
Bnr(n, tag) == [kind |-> "bnr", n |-> n, tag |-> tag]
\* line 394: <mainfolder>/<well>/timestamps.txt
Ts(w) == [kind |-> "ts", n |-> w, tag |-> "-"]
\* line 620: 0000X_0000X_phase_aligned.bnr
BnrX == [kind |-> "bnrX", n |-> 0, tag |-> "-"]
\* line 518: os.path.splitext(file)[0] + ".bnr" of the chosen tif sequence
BnrSel == [kind |-> "bnrSel", n |-> 0, tag |-> "-"]

Paths ==
    {Tif(w) : w \in 0..NWells} \cup {Aligned(w) : w \in 0..NWells}
    \cup {Log(w) : w \in 0..NWells}
    \cup {Bnr(n, t) : n \in 0..NWells, t \in Tags} \cup {BnrX, BnrSel}
    \cup {Ts(w) : w \in 1..NWells}

\* line 313: the container path the check before the question looks at,
\* "w" + str(i).rjust(3, '0') with i = 0..3 and vars[f'lin{i+1}']
CheckedBnr(w) == Bnr(w - 1, lins[w])

\* line 401: the container path that is removed and written,
\* "w" + str(i+1).rjust(3, '0') with i = 0..3 and vars[f'lin{i+1}']
WrittenBnr(w) == Bnr(w, lins[w])

\* lines 354-355, 387-388, 406-407: if os.path.isfile(p): os.remove(p)
os_remove_if_exists(d, p) == [d EXCEPT ![p] = NoFile]

\* lines 89-96 seen from the caller: bin2tif appends its pages to the file
bin2tif_to(d, p) == [d EXCEPT ![p] = File(Append(@.data, "new"))]

\* Call_imageJ_SIFTreg.py lines 79-102: the tool writes the aligned stack and the log
tool_output(d, a, l) == [d EXCEPT ![a] = File(<<"new">>), ![l] = File(<<"new">>)]

\* lines 382-384: the log rewritten in place
log_rewritten(d, l) == [d EXCEPT ![l] = File(<<"rewritten">>)]

\* line 135: open(output_file, 'w') and the writes that follow
tif2bnr_to(d, p, content) == [d EXCEPT ![p] = File(<<content>>)]

\* the files an earlier run may have left behind for each handler
OldPaths(entry) ==
    IF entry = "run_process"
    THEN {Tif(w) : w \in 1..NWells} \cup {Aligned(w) : w \in 1..NWells}
         \cup {Bnr(n, t) : n \in 0..NWells, t \in Tags}
    ELSE IF entry = "Convert_single_tif2bnr" THEN {BnrSel}
    ELSE {Tif(0), Aligned(0), BnrX}

Entries ==
    {"run_process", "Conv_align_single", "Convert_single_bin2tif", "Convert_single_tif2bnr"}

rpStart(entry) ==
    [entry |-> entry, pc |-> "start", i |-> 1, files_exist |-> FALSE, go_on |-> TRUE,
     result |-> "none", bnr_files |-> <<>>, k |-> 1, BNR_check |-> FALSE,
     BNR_errors |-> <<>>, shown |-> FALSE, err |-> "none",
     proc |-> "none", trace |-> <<>>]

PipeInit ==
    /\ \E entry \in Entries :
          /\ rp = rpStart(entry)
          /\ \E old \in {S \in SUBSET OldPaths(entry) : Cardinality(S) <= MaxOld},
                nots \in {{}, {2}} :
                disk0 = [p \in Paths |->
                            IF p \in old \/ (p.kind = "ts" /\ p.n \notin nots)
                            THEN File(<<"old">>) ELSE NoFile]
          /\ IF entry = "run_process"
             THEN /\ lins \in {[w \in 1..NWells |-> "A"],
                               [w \in 1..NWells |-> IF w % 2 = 1 THEN "A" ELSE "B"]}
                  /\ present \in {(1..NWells) \ M : M \in {{}} \cup {{w} : w \in 1..NWells}}
                  /\ mainfolder \in {"", "folder"}
             ELSE /\ lins = [w \in 1..NWells |-> "A"]
                  /\ present = {}
                  /\ mainfolder = "folder"
    /\ disk = disk0
    /\ fiji_exe \in BOOLEAN
    /\ controls = "normal"
    /\ threads = <<>> /\ well_tif = NoFile
    /\ Prog_bar = <<>> /\ ProgIdle /\ LoopIdle
    /\ EncIdle /\ LogIdle /\ B2TIdle

At(entry, pc) == rp.entry = entry /\ rp.pc = pc

Raise(err) == rp' = [rp EXCEPT !.pc = "raised", !.err = err]

\* the stages of run_process in the order they are entered
Stage(name, w) == [stage |-> name, w |-> w]
Enter(r, name) == [r EXCEPT !.trace = Append(@, Stage(name, r.i))]

\* ---- run_process (lines 289-468) ----
\* line 291
RP_all_off ==
    /\ At("run_process", "start")
    /\ controls' = "disabled"
    /\ rp' = [rp EXCEPT !.pc = "folder"]
    /\ UNCHANGED <<mainfolder, disk0, disk, lins, present, fiji_exe, notPipe>>

\* lines 293-296
RP_NoFolder ==
    /\ At("run_process", "folder")
    /\ rp' = [rp EXCEPT !.pc = IF mainfolder = "" THEN "returned" ELSE "exist"]
    /\ UNCHANGED <<winVars, disk0, disk, lins, present, fiji_exe, notPipe>>

\* lines 298-315: do output files exist already?
RP_FilesExist ==
    /\ At("run_process", "exist")
    /\ rp' = [rp EXCEPT !.pc = "ask",
                        !.files_exist = \E w \in 1..NWells :
                                            \/ disk[Tif(w)].exists
                                            \/ disk[Aligned(w)].exists
                                            \/ disk[CheckedBnr(w)].exists]
    /\ UNCHANGED <<winVars, disk0, disk, lins, present, fiji_exe, notPipe>>

\* lines 317-333: the overwrite question, asked only when files_exist
RP_Ask ==
    /\ At("run_process", "ask")
    /\ \E result \in {"yes", "no"} :
          IF rp.files_exist
          THEN rp' = [rp EXCEPT !.result = result, !.go_on = (result = "yes"),
                                !.pc = IF result = "yes" THEN "well" ELSE "all_on"]
          ELSE rp' = [rp EXCEPT !.pc = "well"]
    /\ UNCHANGED <<winVars, disk0, disk, lins, present, fiji_exe, notPipe>>

\* lines 336-346: the next well; a well without its bin folder is passed over
RP_Well ==
    /\ At("run_process", "well")
    /\ IF rp.i > NWells THEN rp' = [rp EXCEPT !.pc = "check"]
       ELSE IF rp.i \notin present THEN rp' = [rp EXCEPT !.i = rp.i + 1]
       ELSE rp' = [rp EXCEPT !.pc = "rmtif"]
    /\ UNCHANGED <<winVars, disk0, disk, lins, present, fiji_exe, notPipe>>

\* lines 351-355
RP_RemoveTif ==
    /\ At("run_process", "rmtif")
    /\ disk' = os_remove_if_exists(disk, Tif(rp.i))
    /\ rp' = [rp EXCEPT !.pc = "bin2tif"]
    /\ UNCHANGED <<winVars, disk0, lins, present, fiji_exe, notPipe>>

\* line 358: bin2tif returns, or raises (line 82, line 87)
RP_Bin2tif ==
    /\ At("run_process", "bin2tif")
    /\ \E ok \in BOOLEAN :
          IF ok THEN /\ disk' = bin2tif_to(disk, Tif(rp.i))
                     /\ rp' = [Enter(rp, "bin2tif") EXCEPT !.pc = "register"]
                ELSE /\ rp' = [Enter(rp, "bin2tif") EXCEPT !.pc = "raised", !.err = "bin2tif"]
                     /\ UNCHANGED disk
    /\ UNCHANGED <<winVars, disk0, lins, present, fiji_exe, notPipe>>

\* lines 364-368 and Call_imageJ_SIFTreg.py lines 73-92: the executable is
\* looked up and the external process started
RP_Register ==
    /\ At("run_process", "register")
    /\ IF ~fiji_exe
       THEN rp' = [Enter(rp, "register") EXCEPT !.pc = "raised", !.err = "SystemExit"]
       ELSE rp' = [Enter(rp, "register") EXCEPT !.pc = "wait", !.proc = "running"]
    /\ UNCHANGED <<winVars, disk0, disk, lins, present, fiji_exe, notPipe>>

\* the external process runs the macro and exits, with or without having
\* made the aligned stack and the log
Fiji_Exit ==
    /\ rp.entry = "run_process"
    /\ rp.proc = "running"
    /\ \E made \in BOOLEAN :
          disk' = IF made THEN tool_output(disk, Aligned(rp.i), Log(rp.i)) ELSE disk
    /\ rp' = [rp EXCEPT !.proc = "exited"]
    /\ UNCHANGED <<winVars, disk0, lins, present, fiji_exe, notPipe>>

\* the caller goes on while the external process is still running
RP_Wait_nowait ==
    /\ At("run_process", "wait")
    /\ rp' = [rp EXCEPT !.pc = "log"]
    /\ UNCHANGED <<winVars, disk0, disk, lins, present, fiji_exe, notPipe>>

\* Call_imageJ_SIFTreg.py line 102: process.wait() returns
RP_Wait ==
    /\ At("run_process", "wait")
    /\ rp.proc = "exited"
    /\ rp' = [rp EXCEPT !.pc = "log"]
    /\ UNCHANGED <<winVars, disk0, disk, lins, present, fiji_exe, notPipe>>

\* a missing log passed over
RP_Log_skip ==
    /\ At("run_process", "log")
    /\ disk' = IF disk[Log(rp.i)].exists THEN log_rewritten(disk, Log(rp.i)) ELSE disk
    /\ rp' = [Enter(rp, "log") EXCEPT !.pc = "rmtif2"]
    /\ UNCHANGED <<winVars, disk0, lins, present, fiji_exe, notPipe>>

\* lines 370-384
RP_Log ==
    /\ At("run_process", "log")
    /\ IF ~disk[Log(rp.i)].exists
       THEN /\ rp' = [Enter(rp, "log") EXCEPT !.pc = "raised", !.err = "FileNotFoundError"]
            /\ UNCHANGED disk
       ELSE /\ disk' = log_rewritten(disk, Log(rp.i))
            /\ rp' = [Enter(rp, "log") EXCEPT !.pc = "rmtif2"]
    /\ UNCHANGED <<winVars, disk0, lins, present, fiji_exe, notPipe>>

\* lines 386-388
RP_RemoveTif2 ==
    /\ At("run_process", "rmtif2")
    /\ disk' = os_remove_if_exists(disk, Tif(rp.i))
    /\ rp' = [rp EXCEPT !.pc = "rmbnr"]
    /\ UNCHANGED <<winVars, disk0, lins, present, fiji_exe, notPipe>>

\* lines 394-407
RP_RemoveBnr ==
    /\ At("run_process", "rmbnr")
    /\ disk' = os_remove_if_exists(disk, WrittenBnr(rp.i))
    /\ rp' = [rp EXCEPT !.pc = "tif2bnr", !.bnr_files = Append(rp.bnr_files, WrittenBnr(rp.i))]
    /\ UNCHANGED <<winVars, disk0, lins, present, fiji_exe, notPipe>>

\* line 409: tif2bnr raises when the timestamps file (line 117) or the
\* aligned stack (line 130) is not there, else it writes the container, in the
\* range or not, or raises
RP_Tif2bnr ==
    /\ At("run_process", "tif2bnr")
    /\ IF ~disk[Ts(rp.i)].exists \/ ~disk[Aligned(rp.i)].exists
       THEN /\ rp' = [Enter(rp, "tif2bnr") EXCEPT !.pc = "raised", !.err = "FileNotFoundError"]
            /\ UNCHANGED disk
       ELSE \E out \in {"new", "new out of range", "raise"} :
               IF out = "raise"
               THEN /\ rp' = [Enter(rp, "tif2bnr") EXCEPT !.pc = "raised", !.err = "tif2bnr"]
                    /\ UNCHANGED disk
               ELSE /\ disk' = tif2bnr_to(disk, rp.bnr_files[Len(rp.bnr_files)], out)
                    /\ rp' = [Enter(rp, "tif2bnr") EXCEPT !.pc = "rmaligned"]
    /\ UNCHANGED <<winVars, disk0, lins, present, fiji_exe, notPipe>>

\* line 412
RP_RemoveAligned ==
    /\ At("run_process", "rmaligned")
    /\ disk' = [disk EXCEPT ![Aligned(rp.i)] = NoFile]
    /\ rp' = [rp EXCEPT !.pc = "well", !.i = rp.i + 1]
    /\ UNCHANGED <<winVars, disk0, lins, present, fiji_exe, notPipe>>

\* the loop over the containers left at the first violation
RP_CheckBnr_halt ==
    /\ At("run_process", "check")
    /\ rp.k <= Len(rp.bnr_files)
    /\ LET bnrk == rp.bnr_files[rp.k]
       IN  IF disk[bnrk].data = <<"new out of range">>
           THEN rp' = [rp EXCEPT !.k = Len(rp.bnr_files) + 1, !.BNR_check = TRUE,
                                 !.BNR_errors = Append(rp.BNR_errors, bnrk)]
           ELSE rp' = [rp EXCEPT !.k = rp.k + 1]
    /\ UNCHANGED <<winVars, disk0, disk, lins, present, fiji_exe, notPipe>>

\* lines 423-458, one pass of the loop
RP_CheckBnr ==
    /\ At("run_process", "check")
    /\ rp.k <= Len(rp.bnr_files)
    /\ LET bnrk == rp.bnr_files[rp.k]
       IN  IF disk[bnrk].data = <<"new out of range">>
           THEN rp' = [rp EXCEPT !.k = rp.k + 1, !.BNR_check = TRUE,
                                 !.BNR_errors = Append(rp.BNR_errors, bnrk),
                                 !.trace = Append(@, Stage("check", bnrk.n))]
           ELSE rp' = [rp EXCEPT !.k = rp.k + 1,
                                 !.trace = Append(@, Stage("check", bnrk.n))]
    /\ UNCHANGED <<winVars, disk0, disk, lins, present, fiji_exe, notPipe>>

\* lines 461-466
RP_Report ==
    /\ At("run_process", "check")
    /\ rp.k > Len(rp.bnr_files)
    /\ rp' = [rp EXCEPT !.pc = "all_on", !.shown = rp.BNR_check]
    /\ UNCHANGED <<winVars, disk0, disk, lins, present, fiji_exe, notPipe>>

\* lines 468, 508, 547, 728: all_on(...), the handler's last statement
Handler_all_on ==
    /\ rp.pc = "all_on"
    /\ controls' = "normal"
    /\ rp' = [rp EXCEPT !.pc = "finished"]
    /\ UNCHANGED <<mainfolder, disk0, disk, lins, present, fiji_exe, notPipe>>

RPNext ==
    \/ RP_all_off \/ RP_NoFolder \/ RP_FilesExist \/ RP_Ask \/ RP_Well
    \/ RP_RemoveTif \/ RP_Bin2tif \/ RP_Register \/ Fiji_Exit \/ RP_Wait
    \/ RP_Log \/ RP_RemoveTif2
    \/ RP_RemoveBnr \/ RP_Tif2bnr \/ RP_RemoveAligned \/ RP_CheckBnr \/ RP_Report
    \/ Handler_all_on

\* ---- Convert_single_bin2tif (lines 470-508) ----
\* line 472
CS_all_off ==
    /\ At("Convert_single_bin2tif", "start")
    /\ controls' = "disabled"
    /\ rp' = [rp EXCEPT !.pc = "dialogs"]
    /\ UNCHANGED <<mainfolder, disk0, disk, lins, present, fiji_exe, notPipe>>

\* lines 474-487: the bin folder dialog, the look for 00000_phase.bin, the
\* output folder dialog
CS_Dialogs ==
    /\ At("Convert_single_bin2tif", "dialogs")
    /\ \E binfolder_chosen \in BOOLEAN, binfile_found \in BOOLEAN :
          rp' = [rp EXCEPT !.pc = IF binfolder_chosen /\ binfile_found THEN "ask"
                                                                      ELSE "all_on"]
    /\ UNCHANGED <<winVars, disk0, disk, lins, present, fiji_exe, notPipe>>

\* lines 489-494: the overwrite question, asked when the stack exists
CS_Ask ==
    /\ At("Convert_single_bin2tif", "ask")
    /\ \E result \in {"yes", "no"} :
          IF disk[Tif(0)].exists
          THEN rp' = [rp EXCEPT !.files_exist = TRUE, !.result = result,
                                !.go_on = (result = "yes"),
                                !.pc = IF result = "yes" THEN "rmtif" ELSE "all_on"]
          ELSE rp' = [rp EXCEPT !.pc = "bin2tif"]
    /\ UNCHANGED <<winVars, disk0, disk, lins, present, fiji_exe, notPipe>>

\* lines 495-496
CS_RemoveTif ==
    /\ At("Convert_single_bin2tif", "rmtif")
    /\ disk' = os_remove_if_exists(disk, Tif(0))
    /\ rp' = [rp EXCEPT !.pc = "bin2tif"]
    /\ UNCHANGED <<winVars, disk0, lins, present, fiji_exe, notPipe>>

\* lines 498-506
CS_Bin2tif ==
    /\ At("Convert_single_bin2tif", "bin2tif")
    /\ \E ok \in BOOLEAN :
          IF ok THEN /\ disk' = bin2tif_to(disk, Tif(0))
                     /\ rp' = [rp EXCEPT !.pc = "all_on"]
                ELSE Raise("bin2tif") /\ UNCHANGED disk
    /\ UNCHANGED <<winVars, disk0, lins, present, fiji_exe, notPipe>>

CSNext == CS_all_off \/ CS_Dialogs \/ CS_Ask \/ CS_RemoveTif \/ CS_Bin2tif

\* ---- Conv_align_single (lines 591-728) ----
\* line 593
CA_all_off ==
    /\ At("Conv_align_single", "start")
    /\ controls' = "disabled"
    /\ rp' = [rp EXCEPT !.pc = "dialogs"]
    /\ UNCHANGED <<mainfolder, disk0, disk, lins, present, fiji_exe, notPipe>>

\* lines 595-613: the three dialogs and the look for 00000_phase.bin
CA_Dialogs ==
    /\ At("Conv_align_single", "dialogs")
    /\ \E all_chosen \in BOOLEAN, binfile_found \in BOOLEAN :
          rp' = [rp EXCEPT !.pc = IF all_chosen /\ binfile_found THEN "ask" ELSE "all_on"]
    /\ UNCHANGED <<winVars, disk0, disk, lins, present, fiji_exe, notPipe>>

\* lines 615-627: the overwrite question, asked when one of the three outputs exists
CA_Ask ==
    /\ At("Conv_align_single", "ask")
    /\ \E result \in {"yes", "no"} :
          IF disk[Tif(0)].exists \/ disk[Aligned(0)].exists \/ disk[BnrX].exists
          THEN rp' = [rp EXCEPT !.files_exist = TRUE, !.result = result,
                                !.go_on = (result = "yes"),
                                !.pc = IF result = "yes" THEN "rmtif" ELSE "all_on"]
          ELSE rp' = [rp EXCEPT !.pc = "rmtif"]
    /\ UNCHANGED <<winVars, disk0, disk, lins, present, fiji_exe, notPipe>>

\* lines 629-638
CA_RemoveTif ==
    /\ At("Conv_align_single", "rmtif")
    /\ disk' = os_remove_if_exists(disk, Tif(0))
    /\ rp' = [rp EXCEPT !.pc = "bin2tif"]
    /\ UNCHANGED <<winVars, disk0, lins, present, fiji_exe, notPipe>>

\* line 640
CA_Bin2tif ==
    /\ At("Conv_align_single", "bin2tif")
    /\ \E ok \in BOOLEAN :
          IF ok THEN /\ disk' = bin2tif_to(disk, Tif(0))
                     /\ rp' = [rp EXCEPT !.pc = "rmaligned"]
                ELSE Raise("bin2tif") /\ UNCHANGED disk
    /\ UNCHANGED <<winVars, disk0, lins, present, fiji_exe, notPipe>>

\* lines 645-647
CA_RemoveAligned ==
    /\ At("Conv_align_single", "rmaligned")
    /\ disk' = os_remove_if_exists(disk, Aligned(0))
    /\ rp' = [rp EXCEPT !.pc = "register"]
    /\ UNCHANGED <<winVars, disk0, lins, present, fiji_exe, notPipe>>

\* lines 649-651 and Call_imageJ_SIFTreg.py lines 73-103
CA_Register ==
    /\ At("Conv_align_single", "register")
    /\ IF ~fiji_exe THEN Raise("SystemExit") /\ UNCHANGED disk
       ELSE /\ \E made \in BOOLEAN :
                  disk' = IF made THEN tool_output(disk, Aligned(0), Log(0)) ELSE disk
            /\ rp' = [rp EXCEPT !.pc = "log"]
    /\ UNCHANGED <<winVars, disk0, lins, present, fiji_exe, notPipe>>

\* lines 653-667
CA_Log ==
    /\ At("Conv_align_single", "log")
    /\ IF ~disk[Log(0)].exists THEN Raise("FileNotFoundError") /\ UNCHANGED disk
       ELSE /\ disk' = log_rewritten(disk, Log(0))
            /\ rp' = [rp EXCEPT !.pc = "rmbnr"]
    /\ UNCHANGED <<winVars, disk0, lins, present, fiji_exe, notPipe>>

\* lines 669-679
CA_RemoveBnr ==
    /\ At("Conv_align_single", "rmbnr")
    /\ disk' = os_remove_if_exists(disk, BnrX)
    /\ rp' = [rp EXCEPT !.pc = "tif2bnr", !.bnr_files = <<BnrX>>]
    /\ UNCHANGED <<winVars, disk0, lins, present, fiji_exe, notPipe>>

\* line 681
CA_Tif2bnr ==
    /\ At("Conv_align_single", "tif2bnr")
    /\ IF ~disk[Aligned(0)].exists THEN Raise("tif2bnr") /\ UNCHANGED disk
       ELSE \E out \in {"new", "new out of range", "raise"} :
               IF out = "raise" THEN Raise("tif2bnr") /\ UNCHANGED disk
               ELSE /\ disk' = tif2bnr_to(disk, BnrX, out)
                    /\ rp' = [rp EXCEPT !.pc = "cleanup"]
    /\ UNCHANGED <<winVars, disk0, lins, present, fiji_exe, notPipe>>

\* lines 683-684: os.remove(tif_file); os.remove(aligned_file)
CA_Cleanup ==
    /\ At("Conv_align_single", "cleanup")
    /\ disk' = [disk EXCEPT ![Tif(0)] = NoFile, ![Aligned(0)] = NoFile]
    /\ rp' = [rp EXCEPT !.pc = "check"]
    /\ UNCHANGED <<winVars, disk0, lins, present, fiji_exe, notPipe>>

\* lines 689-726
CA_Check ==
    /\ At("Conv_align_single", "check")
    /\ LET bad == disk[BnrX].data = <<"new out of range">>
       IN  rp' = [rp EXCEPT !.pc = "all_on", !.BNR_check = bad, !.shown = bad,
                            !.BNR_errors = IF bad THEN <<BnrX>> ELSE <<>>]
    /\ UNCHANGED <<winVars, disk0, disk, lins, present, fiji_exe, notPipe>>

CANext ==
    \/ CA_all_off \/ CA_Dialogs \/ CA_Ask \/ CA_RemoveTif \/ CA_Bin2tif
    \/ CA_RemoveAligned \/ CA_Register \/ CA_Log \/ CA_RemoveBnr \/ CA_Tif2bnr
    \/ CA_Cleanup \/ CA_Check

\* ---- Convert_single_tif2bnr (lines 510-547) ----
\* line 512
CT_all_off ==
    /\ At("Convert_single_tif2bnr", "start")
    /\ controls' = "disabled"
    /\ rp' = [rp EXCEPT !.pc = "dialog"]
    /\ UNCHANGED <<mainfolder, disk0, disk, lins, present, fiji_exe, notPipe>>

\* lines 514-518: the tif sequence is chosen, or the dialog cancelled
CT_Dialog ==
    /\ At("Convert_single_tif2bnr", "dialog")
    /\ \E file \in BOOLEAN :
          rp' = [rp EXCEPT !.pc = IF file THEN "exist" ELSE "all_on"]
    /\ UNCHANGED <<winVars, disk0, disk, lins, present, fiji_exe, notPipe>>

\* lines 520-527: the overwrite question; on yes the container is removed
CT_Ask ==
    /\ At("Convert_single_tif2bnr", "exist")
    /\ IF disk[BnrSel].exists
       THEN \E result \in {"yes", "no"} :
               /\ rp' = [rp EXCEPT !.files_exist = TRUE, !.result = result,
                                   !.go_on = (result = "yes"), !.pc = "pz"]
               /\ disk' = IF result = "yes" THEN os_remove_if_exists(disk, BnrSel) ELSE disk
       ELSE rp' = [rp EXCEPT !.pc = "pz"] /\ UNCHANGED disk
    /\ UNCHANGED <<winVars, disk0, lins, present, fiji_exe, notPipe>>

\* lines 529-532: the pixel-size question
CT_PixelSize ==
    /\ At("Convert_single_tif2bnr", "pz")
    /\ \E result \in {"yes", "no"} :
          LET go == rp.go_on /\ result = "yes"
          IN  rp' = [rp EXCEPT !.go_on = go, !.pc = IF go THEN "ts" ELSE "all_on"]
    /\ UNCHANGED <<winVars, disk0, disk, lins, present, fiji_exe, notPipe>>

\* lines 535-536: the timestamps file is chosen, or the dialog cancelled
CT_Timestamps ==
    /\ At("Convert_single_tif2bnr", "ts")
    /\ \E ts_path \in BOOLEAN :
          rp' = [rp EXCEPT !.pc = IF ts_path THEN "tif2bnr" ELSE "all_on"]
    /\ UNCHANGED <<winVars, disk0, disk, lins, present, fiji_exe, notPipe>>

\* line 543: tif2bnr writes the container, in the range or not, or raises
CT_Tif2bnr ==
    /\ At("Convert_single_tif2bnr", "tif2bnr")
    /\ \E out \in {"new", "new out of range", "raise"} :
          IF out = "raise" THEN Raise("tif2bnr") /\ UNCHANGED disk
          ELSE /\ disk' = tif2bnr_to(disk, BnrSel, out)
               /\ rp' = [rp EXCEPT !.pc = "all_on"]
    /\ UNCHANGED <<winVars, disk0, lins, present, fiji_exe, notPipe>>

CTNext == CT_all_off \/ CT_Dialog \/ CT_Ask \/ CT_PixelSize \/ CT_Timestamps \/ CT_Tif2bnr

PipeNext == RPNext \/ CSNext \/ CANext \/ CTNext

SpecPipe == PipeInit /\ [][PipeNext]_vars

\* ------------------------------------------------------------------------
\* Properties of the handlers' use of the output files
\* ------------------------------------------------------------------------
OutputKinds == {"tif", "aligned", "bnr", "bnrX"}

\* an output file an earlier run left that this run has removed or rewritten
Destroyed(p) == p.kind \in OutputKinds /\ disk0[p].exists /\ disk[p] # disk0[p]

\* C2: in run_process an output file (stack, aligned stack, container) that
\* exists when the run starts is removed or overwritten during the run only
\* if the overwrite question was shown in the run and answered yes.
C2_NoSilentOverwrite ==
    rp.entry = "run_process" => \A p \in Paths : Destroyed(p) => rp.result = "yes"

\* C20: in Convert_single_tif2bnr a container that exists when the handler
\* starts is still on disk, unchanged, when the handler ends, unless the run
\* has encoded its replacement.
C20_ContainerKeptUnlessEncoded ==
    (rp.entry = "Convert_single_tif2bnr" /\ rp.pc \in {"all_on", "finished"}
        /\ disk0[BnrSel].exists)
    => \/ disk[BnrSel] = disk0[BnrSel]
       \/ disk[BnrSel].data \in {<<"new">>, <<"new out of range">>}

\* the container at path p has a first image outside the range
Violates(p) == disk[p].data = <<"new out of range">>

WellStages(w) ==
    <<Stage("bin2tif", w), Stage("register", w), Stage("log", w), Stage("tif2bnr", w)>>

RECURSIVE Planned(_)
Planned(w) ==
    IF w > NWells THEN <<>>
    ELSE (IF w \in present THEN WellStages(w) ELSE <<>>) \o Planned(w + 1)

RECURSIVE PlannedChecks(_)
PlannedChecks(w) ==
    IF w > NWells THEN <<>>
    ELSE (IF w \in present THEN <<Stage("check", w)>> ELSE <<>>) \o PlannedChecks(w + 1)

IsPrefix(a, b) == Len(a) <= Len(b) /\ a = SubSeq(b, 1, Len(a))

\* C17: in run_process the stages are entered in the order bin2tif ->
\* registration -> log translation -> tif2bnr for each well, one well after
\* the other, and the containers are checked only after the encoders of all
\* wells; while the external process runs no other stage is entered, so the
\* log is read only after it has exited.
C17_StagesInOrder ==
    rp.entry = "run_process" =>
        /\ IsPrefix(rp.trace, Planned(1) \o PlannedChecks(1))
        /\ rp.proc = "running" =>
              /\ rp.pc = "wait"
              /\ rp.trace # <<>>
              /\ rp.trace[Len(rp.trace)] = Stage("register", rp.i)
        /\ \A j \in 1..Len(rp.trace) :
              rp.trace[j].stage = "log" /\ j = Len(rp.trace) => rp.proc = "exited"
        /\ rp.pc = "check" => Len(rp.trace) >= Len(Planned(1))

\* a finished run over four wells: sixteen stages, then four checks
C17_Witness ==
    /\ rp.entry = "run_process" /\ rp.pc = "finished"
    /\ present = 1..NWells
    /\ rp.trace = Planned(1) \o PlannedChecks(1)
    /\ Len(rp.trace) = 5 * NWells

\* a run that leaves out well 2 and goes from the encoder of well 1 to the
\* compositor of well 3
C17_WitnessSkip ==
    /\ rp.entry = "run_process" /\ rp.pc = "finished"
    /\ present = {1, 3, 4} /\ Len(rp.trace) = 15
    /\ rp.trace[4] = Stage("tif2bnr", 1) /\ rp.trace[5] = Stage("bin2tif", 3)

\* the positions of run_process after the registration call of a well
AfterRegister == {"wait", "log", "rmtif2", "rmbnr", "tif2bnr", "rmaligned"}

\* nothing of well w has been made or removed by the run
Untouched(w) ==
    /\ disk[Tif(w)] = disk0[Tif(w)]
    /\ disk[Aligned(w)] = disk0[Aligned(w)]
    /\ disk[Log(w)] = disk0[Log(w)]
    /\ \A j \in 1..Len(rp.bnr_files) : rp.bnr_files[j] # WrittenBnr(w)

\* a missing executable or file ends the run with an error where it is missed
FatalResources ==
    /\ ~fiji_exe =>
          /\ rp.pc \notin AfterRegister \cup {"check"}
          /\ rp.bnr_files = <<>>
          /\ rp.pc \in {"all_on", "finished"} => ~rp.go_on
    /\ rp.pc \in AfterRegister \ {"wait", "log"} => disk[Log(rp.i)].exists
    /\ rp.pc = "rmaligned" => disk[Ts(rp.i)].exists /\ disk[Aligned(rp.i)].exists
    /\ \A w \in 1..NWells :
          (~disk0[Ts(w)].exists /\ w \in present) =>
              /\ rp.i <= w
              /\ rp.pc # "check"
              /\ rp.pc \in {"all_on", "finished"} => ~rp.go_on
    /\ rp.pc = "raised" =>
          /\ rp.i \in present
          /\ \A w \in (rp.i + 1)..NWells : Untouched(w)

\* C13 as stated: a missing executable, log, aligned stack or timestamps file
\* ends the run with an error, and so does a missing input folder of a well:
\* the run never passes over the well and goes on with the next.
C13_MissingIsFatal ==
    rp.entry = "run_process" =>
        /\ FatalResources
        /\ \A w \in (1..NWells) \ present : rp.i > w => rp.pc = "raised"

\* C13 amended: a missing executable, log, aligned stack or timestamps file
\* ends the run with an error in the well where it is missed and no later
\* well is touched; a well whose input folder is missing is passed over
\* whole (no file of it is made, removed or checked) and the run goes on
\* with the next well.
C13_FatalButMissingFolderPassedOver ==
    rp.entry = "run_process" =>
        /\ FatalResources
        /\ \A w \in (1..NWells) \ present :
              /\ Untouched(w)
              /\ rp.i = w => rp.pc \in {"start", "folder", "returned", "exist", "ask", "well",
                                         "all_on", "finished"}

C13_Witness ==
    /\ rp.entry = "run_process"
    /\ present = {1, 3, 4}
    /\ fiji_exe
    /\ rp.pc = "finished"
    /\ rp.bnr_files = <<WrittenBnr(1), WrittenBnr(3), WrittenBnr(4)>>

C13_WitnessFatal ==
    /\ rp.entry = "run_process"
    /\ rp.pc = "raised"
    /\ rp.err = "FileNotFoundError"
    /\ rp.i = 2
    /\ ~disk0[Ts(2)].exists
    /\ disk[Aligned(2)] = File(<<"new">>)
    /\ disk[Log(2)] = File(<<"rewritten">>)
    /\ rp.bnr_files = <<WrittenBnr(1), WrittenBnr(2)>>
    /\ ~disk[WrittenBnr(2)].exists

\* the stack the running handler composes
tif_file_now == IF rp.entry = "run_process" THEN Tif(rp.i) ELSE Tif(0)

\* One handler running alone: the destination stack does not exist when
\* bin2tif is called, and a stack the handler has written holds the pages of
\* this run only.
SingleWorker_Bin2tifStartsFresh ==
    /\ rp.pc = "bin2tif" => ~disk[tif_file_now].exists
    /\ \A w \in 0..NWells :
          (disk[Tif(w)].exists /\ disk[Tif(w)] # disk0[Tif(w)]) => disk[Tif(w)].data = <<"new">>

SingleWorker_Witness ==
    /\ rp.pc \in {"register", "rmaligned", "all_on"}
    /\ disk0[tif_file_now].exists
    /\ disk[tif_file_now].data = <<"new">>

\* ------------------------------------------------------------------------
\* Properties of tif2bnr and the container check
\* ------------------------------------------------------------------------
Representable(v) == float32(v) = v

\* C3 as stated: tif2bnr never completes with a container whose frame_count
\* differs from the number of pages of the stack (it fails when the timestamp
\* table has more rows than the stack has pages, and when it has fewer).
C3_FailsOnAnyMismatch ==
    t2b.pc = "done" => bnr.data[1].v = Len(stack)

\* C3 amended: tif2bnr completes only when the table has at least one row and
\* no more rows than the stack has pages; the frame_count it writes is the
\* number of rows, so it never exceeds the number of pages, and with more rows
\* than pages the call never completes: once past the parse of a well-formed
\* table it fails on the first page the stack does not have.
C3_CompletesOnlyWithinStack ==
    /\ t2b.pc = "done" =>
          /\ bnr.data[1] = [t |-> "i4", v |-> Len(tstable)]
          /\ 1 <= Len(tstable)
          /\ Len(tstable) <= Len(stack)
    /\ (Len(tstable) > Len(stack) /\ t2b.pc = "failed" /\ bnr # bnr0) =>
          /\ t2b.err = "IndexError"
          /\ t2b.k = Len(stack)

\* C11: when tif2bnr fails while parsing the timestamp table (a row with
\* fewer than four columns or a fourth column that is no number) or while
\* reading the first page (a stack without pages), the destination file is
\* as it was before the call: not created, not truncated, nothing written;
\* and nothing is written before the table is parsed and the first page read.
C11_NoPartialResultOnEarlyFailure ==
    /\ t2b.pc \in {"parse", "first", "header"} => bnr = bnr0
    /\ (t2b.pc = "failed" /\ ((\E i \in 1..Len(tstable) : BadRow(tstable[i])) \/ stack = <<>>))
          => bnr = bnr0 /\ Prog_bar = <<>>

C11_Witness ==
    /\ t2b.pc = "failed"
    /\ t2b.err = "ValueError"
    /\ bnr0 = OldContainer
    /\ bnr = OldContainer

C11_WitnessNoPage ==
    /\ t2b.pc = "failed"
    /\ stack = <<>>
    /\ Len(tstable) > 0
    /\ bnr0 = OldContainer
    /\ bnr = bnr0

C3_Witness == t2b.pc = "done" /\ Len(tstable) < Len(stack)

\* the length in 4-byte words that the header of a container announces
AnnouncedWords(f) ==
    LET hd == ReadHeader(f) IN 7 + hd.nImages + hd.nImages * hd.h * hd.w

\* C21: whenever tif2bnr has ended, by success or by failure, a file it has
\* written at the destination is a complete container: it has the 7 header
\* words, and 7 + N + N*H*W words in all for the N, W, H of its own header.
C21_NoTruncatedContainer ==
    (t2b.pc \in {"done", "failed"} /\ bnr # bnr0) =>
        /\ Len(bnr.data) >= 7
        /\ Len(bnr.data) = AnnouncedWords(bnr.data)

\* C4: after a successful tif2bnr the container holds exactly 7 + N + N*H*W
\* four-byte values: nImages, w, h, pz, wv, n_1, n_2, then the N timestamps in
\* row order, then the N pages in stack order, each row-major; while the pages
\* are being written the file always ends on a page boundary.
C4_ContainerLayout ==
    LET N == Len(tstable)
        H == Len(stack[1])
        W == Len(stack[1][1])
    IN  /\ t2b.pc = "done" =>
              /\ Len(bnr.data) = 7 + N + N * H * W
              /\ bnr.data[1] = [t |-> "i4", v |-> N]
              /\ bnr.data[2] = [t |-> "i4", v |-> W]
              /\ bnr.data[3] = [t |-> "i4", v |-> H]
              /\ bnr.data[4] = [t |-> "f4", v |-> float32(meta.pz)]
              /\ bnr.data[5] = [t |-> "f4", v |-> float32(meta.wv)]
              /\ bnr.data[6] = [t |-> "f4", v |-> float32(meta.n_1)]
              /\ bnr.data[7] = [t |-> "f4", v |-> float32(meta.n_2)]
              /\ \A i \in 1..N : bnr.data[7 + i] = [t |-> "f4", v |-> float32(tstable[i][4].v)]
              /\ \A p \in 1..N, r \in 1..H, c \in 1..W :
                    bnr.data[7 + N + (p - 1) * H * W + (r - 1) * W + c]
                        = [t |-> "f4", v |-> stack[p][r][c]]
        /\ t2b.pc = "images" => Len(bnr.data) = 7 + N + t2b.k * H * W

C4_Witness ==
    /\ t2b.pc = "done"
    /\ Len(stack) = 3 /\ Len(tstable) = 3
    /\ stack[2] = <<<<5, 6>>, <<7, 8>>>>

\* C5: the header read back by the check's read sequence (three i4, four f4)
\* is frame_count = N, width = W, height = H and the four metadata values as
\* single-precision numbers in the order pz, wv, n_1, n_2; metadata that are
\* single-precision values come back unchanged.
C5_HeaderRoundTrip ==
    chk.pc \in {"read", "checked"} =>
        /\ chk.nImages = Len(tstable)
        /\ chk.w = Len(stack[1][1])
        /\ chk.h = Len(stack[1])
        /\ chk.floats = <<float32(meta.pz), float32(meta.wv),
                          float32(meta.n_1), float32(meta.n_2)>>
        /\ (\A f \in {"pz", "wv", "n_1", "n_2"} : Representable(meta[f]))
              => chk.floats = <<meta.pz, meta.wv, meta.n_1, meta.n_2>>

C5_Witness ==
    /\ chk.pc = "read"
    /\ chk.floats = <<7, 300, 3, 4>>
    /\ chk.nImages = 3 /\ chk.w = 1 /\ chk.h = 2

Example3Frames ==
    /\ stack = <<Ramp(1, 2, 2), Ramp(5, 2, 2), Ramp(9, 2, 2)>>
    /\ tstable = [i \in 1..3 |-> OkRow(i, 0)]

\* C6: the first image the check reconstructs, after the 7 header values and
\* frame_count skipped values, is page 0 of the encoded stack; for the 3-frame
\* 2x2 example it is [[1,2],[3,4]] with min 1, max 4 and no violation.
C6_FirstFrameRoundTrip ==
    /\ chk.pc \in {"read", "checked"} => chk.phase_map = stack[1]
    /\ (Example3Frames /\ chk.pc = "checked") =>
          /\ chk.phase_map = <<<<1, 2>>, <<3, 4>>>>
          /\ chk.phasemin = 1
          /\ chk.phasemax = 4
          /\ ~chk.BNR_check

C6_Witness == Example3Frames /\ chk.pc = "checked"

\* C7: the check flags a container exactly when a sample of the first page is
\* below -100 or above 100; samples equal to 100 or -100 and the samples of
\* the later pages do not count.
C7_RangeViolationIff ==
    chk.pc = "checked" =>
        (chk.BNR_check <=>
            \E r \in 1..Len(stack[1]), c \in 1..Len(stack[1][1]) :
                stack[1][r][c] < -100 \/ stack[1][r][c] > 100)

C7_Witness ==
    /\ chk.pc = "checked"
    /\ ~chk.BNR_check
    /\ \E r \in 1..Len(stack[1]) : \E c \in 1..Len(stack[1][1]) : stack[1][r][c] = 100
    /\ Len(stack) >= 2
    /\ stack[2][1][1] = 150

C7_WitnessViolation ==
    /\ chk.pc = "checked"
    /\ chk.BNR_check
    /\ chk.phasemax = 150
    /\ chk.phasemin = 0

====
